---- MODULE Spec2Model ----
(***************************************************************************)
(* Model of src/index.ts: six helpers that mutate a webpack Configuration  *)
(* in place (fixZipPackage, dedupeModules, useSourceMap, useTypescript,    *)
(* useCss, useExternal).                                                   *)
(*                                                                         *)
(* State: the configuration object (config), the configuration as it was   *)
(* before the last call (prev), the configuration the caller built (init), *)
(* the calls made so far, oldest first (calls), and whether the last call  *)
(* threw (raised).                                                         *)
(*                                                                         *)
(* An optional property of a JavaScript object is a record                 *)
(* [has |-> BOOLEAN, val |-> ...]; has = FALSE is `undefined`.             *)
(* A path string is [abs |-> BOOLEAN, segs |-> <<segment, ...>>]; the      *)
(* empty string is [abs |-> FALSE, segs |-> <<>>].                         *)
(***************************************************************************)
EXTENDS Integers, Sequences, FiniteSets, TLC

VARIABLES config, prev, init, calls, raised

vars == <<config, prev, init, calls, raised>>

----------------------------------------------------------------------------
(* Bounds *)

\* Calls made on one configuration.
MaxOps == 2

\* Plugins the caller put in config.plugins before the first call.
MaxInitPlugins == 3

----------------------------------------------------------------------------
(* Values *)

Undefined(v) == [has |-> FALSE, val |-> v]
Some(v) == [has |-> TRUE, val |-> v]

P(abs, segs) == [abs |-> abs, segs |-> segs]
EmptyPath == P(FALSE, <<>>)
NoPath == Undefined(EmptyPath)

\* The process's working directory, which path.resolve() prepends.
CWD == <<"work">>

\* The segments of a module name ('@s/ui' names a scoped package).
ModuleNames == {"react", "@s/ui", "vue"}
ModuleSegs(m) ==
    CASE m = "react" -> <<"react">>
      [] m = "@s/ui" -> <<"@s", "ui">>
      [] m = "vue"   -> <<"vue">>

----------------------------------------------------------------------------
(* node's path module: normalisation, join and resolve *)

RECURSIVE NormalizeFrom(_, _, _)
\* Walks the segments left to right with the output so far in `out`:
\* '.' is dropped, '..' removes the segment before it (or is kept at the
\* head of a relative path, dropped at the root of an absolute one).
NormalizeFrom(abs, segs, out) ==
    IF segs = <<>> THEN out
    ELSE LET s == Head(segs)
             rest == Tail(segs)
         IN  IF s = "." \/ s = ""
             THEN NormalizeFrom(abs, rest, out)
             ELSE IF s = ".."
             THEN IF out # <<>> /\ out[Len(out)] # ".."
                  THEN NormalizeFrom(abs, rest, SubSeq(out, 1, Len(out) - 1))
                  ELSE IF abs
                  THEN NormalizeFrom(abs, rest, out)
                  ELSE NormalizeFrom(abs, rest, Append(out, ".."))
             ELSE NormalizeFrom(abs, rest, Append(out, s))

Normalize(p) == P(p.abs, NormalizeFrom(p.abs, p.segs, <<>>))

\* path.join(a, b): the two joined with a separator, then normalised.
PathJoin(a, b) ==
    Normalize(P(a.abs \/ (a.segs = <<>> /\ b.abs), a.segs \o b.segs))

\* path.resolve(a): an absolute path, relative ones taken from the cwd.
PathResolve(a) ==
    IF a.abs THEN Normalize(a) ELSE Normalize(P(TRUE, CWD \o a.segs))

\* path.resolve(a, b): right to left until an absolute path is built.
PathResolve2(a, b) ==
    IF b.abs THEN Normalize(b)
    ELSE IF a.abs THEN Normalize(P(TRUE, a.segs \o b.segs))
    ELSE Normalize(P(TRUE, CWD \o a.segs \o b.segs))

\* JavaScript truthiness of an optional string: undefined and '' are falsy.
TruthyStr(o) == o.has /\ o.val # EmptyPath

----------------------------------------------------------------------------
(* Plugins *)

\* A plugin instance: the name of its class, whether that class is the copy
\* of the library this module imports (own) or another copy of the same
\* library (npm link), its identity and, for a CopyPlugin, its patterns.
Plugin(cls, own, id) ==
    [cls |-> cls, own |-> own, id |-> id, patterns |-> <<>>]

\* new CopyPlugin([{from, to, cache: true}])
NewCopyPlugin(from, to, id) ==
    [cls |-> "CopyPlugin", own |-> TRUE, id |-> id,
     patterns |-> <<[from |-> from, to |-> to, cache |-> TRUE]>>]

\* new DuplicatePackageCheckerPlugin()
NewDuplicatePackageCheckerPlugin(id) ==
    Plugin("DuplicatePackageCheckerPlugin", TRUE, id)

\* x instanceof C, for a class C this module imports.
InstanceOf(x, cls) == x.cls = cls /\ x.own

\* x.constructor.name
ConstructorName(x) == x.cls

isZipPlugin_instanceofOnly(x) == InstanceOf(x, "ZipPlugin")

isZipPlugin(x) ==
    InstanceOf(x, "ZipPlugin") \/ ConstructorName(x) = "ZipPlugin"

\* The comparator handed to sort().
ZipCompare(a, b) ==
    LET aIsZip == IF isZipPlugin(a) THEN 1 ELSE 0
        bIsZip == IF isZipPlugin(b) THEN 1 ELSE 0
    IN  aIsZip - bIsZip

RECURSIVE InsertSorted_unstable(_, _)
\* An insertion that also steps over the elements x compares equal to.
InsertSorted_unstable(s, x) ==
    IF s = <<>> THEN <<x>>
    ELSE LET last == s[Len(s)]
         IN  IF ZipCompare(last, x) >= 0
             THEN Append(InsertSorted_unstable(SubSeq(s, 1, Len(s) - 1), x), last)
             ELSE Append(s, x)

RECURSIVE InsertSorted(_, _)
\* Puts x into the sorted list s behind every element it does not
\* compare below.
InsertSorted(s, x) ==
    IF s = <<>> THEN <<x>>
    ELSE LET last == s[Len(s)]
         IN  IF ZipCompare(last, x) > 0
             THEN Append(InsertSorted(SubSeq(s, 1, Len(s) - 1), x), last)
             ELSE Append(s, x)

RECURSIVE SortFrom(_, _)
SortFrom(done, todo) ==
    IF todo = <<>> THEN done
    ELSE SortFrom(InsertSorted(done, Head(todo)), Tail(todo))

\* Array.prototype.sort(compare): the insertion sort the engine runs on
\* short arrays; it is stable, as the language requires of sort().
Sort(s) == SortFrom(<<>>, s)

----------------------------------------------------------------------------
(* The configuration *)

EmptyObject == [k \in {} |-> EmptyPath]

\* {}: an object none of whose properties is set.
EmptyResolve ==
    [alias |-> Undefined(EmptyObject),
     extensions |-> Undefined(<<>>),
     modules |-> Undefined(<<>>)]

\* { rules: [] }
EmptyModule == [rules |-> Some(<<>>)]

\* A module object whose rules property is not set (module: {}).
ModuleWithoutRules == [rules |-> Undefined(<<>>)]

NoExternals == [kind |-> "absent", items |-> <<>>]
SingleExternal(e) == [kind |-> "single", items |-> <<e>>]
ListExternals(l) == [kind |-> "list", items |-> l]

StringExternal(s) == [tag |-> "string", str |-> s]
ObjectExternal(k, v) == [tag |-> "object", obj |-> [m \in {k} |-> v]]

\* Truthiness of config.externals: undefined and '' are falsy, every object
\* and every array (the empty one too) is truthy.
TruthyExternals(e) ==
    CASE e.kind = "absent" -> FALSE
      [] e.kind = "list"   -> TRUE
      [] e.kind = "single" -> e.items[1] # StringExternal("")

\* Array.isArray(config.externals)
IsArray(e) == e.kind = "list"

NoEntry == [tag |-> "none", globs |-> <<>>]

\* The empty configuration {}.
EmptyConfig ==
    [context |-> NoPath,
     entry |-> NoEntry,
     devtool |-> "",
     resolve |-> Undefined(EmptyResolve),
     module |-> Undefined(ModuleWithoutRules),
     plugins |-> Undefined(<<>>),
     externals |-> NoExternals]

\* The outcome of a call: the configuration it leaves and whether it threw.
Returned(c) == [cfg |-> c, threw |-> FALSE]
Threw(c) == [cfg |-> c, threw |-> TRUE]

\* x || d for an optional object or array (objects and arrays are truthy).
OrDefault(o, d) == IF o.has THEN o.val ELSE d

----------------------------------------------------------------------------
(* fixZipPackage *)

fixZipPackage(c) ==
    IF ~c.plugins.has
    THEN Returned(c)
    ELSE Returned([c EXCEPT !.plugins = Some(Sort(c.plugins.val))])

----------------------------------------------------------------------------
(* getDedupeAliases, dedupeModules *)

DefaultFolder == P(FALSE, <<".", "node_modules">>)

\* alias[mod] = value
SetKey(obj, k, v) ==
    [x \in DOMAIN obj \cup {k} |-> IF x = k THEN v ELSE obj[x]]

RECURSIVE getDedupeAliasesFrom(_, _, _)
getDedupeAliasesFrom(alias, modules, folder) ==
    IF modules = <<>> THEN alias
    ELSE LET mod == Head(modules)
         IN  getDedupeAliasesFrom(
                 SetKey(alias, mod,
                        PathResolve(PathJoin(folder, P(FALSE, ModuleSegs(mod))))),
                 Tail(modules), folder)

getDedupeAliases(modules, folder) ==
    getDedupeAliasesFrom(EmptyObject, modules, OrDefault(folder, DefaultFolder))

\* { ...a, ...b }: the keys of both, b's value where both have the key.
Spread_firstWins(a, b) ==
    [k \in DOMAIN a \cup DOMAIN b |-> IF k \in DOMAIN a THEN a[k] ELSE b[k]]

Spread(a, b) ==
    [k \in DOMAIN a \cup DOMAIN b |-> IF k \in DOMAIN b THEN b[k] ELSE a[k]]

\* plugins.some(p => p instanceof DuplicatePackageCheckerPlugin)
HasDuplicateChecker_never(plugins) == FALSE

HasDuplicateChecker(plugins) ==
    \E i \in 1..Len(plugins) :
        InstanceOf(plugins[i], "DuplicatePackageCheckerPlugin")

dedupeModules(c, modules, folder) ==
    LET resolve == OrDefault(c.resolve, EmptyResolve)
        alias == Spread(OrDefault(resolve.alias, EmptyObject),
                        getDedupeAliases(modules,
                                         Some(OrDefault(folder, DefaultFolder))))
        plugins == OrDefault(c.plugins, <<>>)
        plugins2 == IF ~HasDuplicateChecker(plugins)
                    THEN Append(plugins,
                                NewDuplicatePackageCheckerPlugin(Len(plugins) + 1))
                    ELSE plugins
    IN  Returned([c EXCEPT !.resolve = Some([resolve EXCEPT !.alias = Some(alias)]),
                           !.plugins = Some(plugins2)])

----------------------------------------------------------------------------
(* useSourceMap *)

SourceMapRule ==
    [test |-> "\\.js$",
     use |-> <<[loader |-> "source-map-loader"]>>,
     enforce |-> "pre"]

\* config.module = config.module || { rules: [] }
InitModule(c) == [c EXCEPT !.module = Some(OrDefault(c.module, EmptyModule))]

\* config.module.rules.push(rule), config.module being set: a TypeError
\* when the module object has no rules.
PushRule(c, rule) ==
    IF ~c.module.val.rules.has
    THEN Threw(c)
    ELSE Returned([c EXCEPT !.module.val.rules.val = Append(@, rule)])

useSourceMap(c, dev) ==
    IF dev
    THEN PushRule(InitModule([c EXCEPT !.devtool = "cheap-module-source-map"]),
                  SourceMapRule)
    ELSE Returned([c EXCEPT !.devtool = "source-map"])

----------------------------------------------------------------------------
(* useTypescript *)

NoTypeScriptOptions ==
    [entryPaths |-> Undefined(<<>>),
     modules |-> Undefined(<<>>),
     tsConfigFile |-> Undefined("")]

ENTRY_FILES == P(FALSE, <<"*.{js,mjs,jsx,ts,tsx}">>)

\* GlobEntriesPlugin.getEntries(globs): the entries the globs match.
GetEntries(globs) == [tag |-> "glob", globs |-> globs]

TsLintRule(tsConfigFile) ==
    [test |-> "\\.(ts|tsx)$",
     enforce |-> "pre",
     use |-> <<[loader |-> "tslint-loader",
                options |-> [tsConfigFile |-> tsConfigFile,
                             emitErrors |-> TRUE]]>>]

TsRule ==
    [test |-> "\\.(ts|tsx)$",
     use |-> <<[loader |-> "ts-loader"]>>]

\* { entryPaths: [...], modules: [...], tsConfigFile: ..., ...options }
TypeScriptOptionsWithDefaults(c, options) ==
    [entryPaths |->
        OrDefault(options.entryPaths,
                  <<PathResolve2(IF TruthyStr(c.context) THEN c.context.val
                                 ELSE P(FALSE, <<"app">>),
                                 P(FALSE, <<"**">>))>>),
     modules |-> OrDefault(options.modules, <<"./node_modules">>),
     tsConfigFile |-> OrDefault(options.tsConfigFile, "tsconfig.json")]

\* config.resolve.extensions.push('.ts'); ...push('.tsx')
PushExtensions(extensions) == Append(Append(extensions, ".ts"), ".tsx")

\* [...config.resolve.modules, ...options_.modules]
ConcatModules_newFirst(old, new) == new \o old

ConcatModules(old, new) == old \o new

\* config.entry = GlobEntriesPlugin.getEntries(entryPaths.map(...))
NewEntry_keepOld(c, entryPaths) ==
    IF c.entry.tag = "none"
    THEN GetEntries([i \in 1..Len(entryPaths) |->
                        PathResolve2(entryPaths[i], ENTRY_FILES)])
    ELSE c.entry

NewEntry(c, entryPaths) ==
    GetEntries([i \in 1..Len(entryPaths) |->
                   PathResolve2(entryPaths[i], ENTRY_FILES)])

useTypescript(c, options) ==
    LET options_ == TypeScriptOptionsWithDefaults(c, options)
        resolve == OrDefault(c.resolve, EmptyResolve)
        extensions == PushExtensions(OrDefault(resolve.extensions, <<>>))
        modules == ConcatModules(OrDefault(resolve.modules, <<>>), options_.modules)
        c1 == [c EXCEPT !.resolve = Some([resolve EXCEPT
                                             !.extensions = Some(extensions),
                                             !.modules = Some(modules)]),
                        !.entry = NewEntry(c, options_.entryPaths)]
        r1 == PushRule(InitModule(c1), TsLintRule(options_.tsConfigFile))
    IN  IF r1.threw THEN r1 ELSE PushRule(r1.cfg, TsRule)

----------------------------------------------------------------------------
(* useCss *)

NoCssOptions ==
    [optimizeImages |-> Undefined(TRUE),
     imagePath |-> Undefined("")]

CssRule ==
    [test |-> "\\.css$",
     use |-> <<[loader |-> "style-loader"], [loader |-> "css-loader"]>>]

ImageRule(imagePath, optimizeImages) ==
    [test |-> "\\.(bmp|gif|jpg|jpeg|png|svg|tif|tiff|webp)$",
     use |-> <<[loader |-> "file-loader",
                options |-> [outputPath |-> <<imagePath, "/">>,
                             publicPath |-> <<"/", imagePath, "/">>]],
               [loader |-> "image-webpack-loader",
                options |-> [disable |-> ~optimizeImages]]>>]

useCss(c, options) ==
    LET optimizeImages == OrDefault(options.optimizeImages, TRUE)
        imagePath == OrDefault(options.imagePath, "images")
        r1 == PushRule(InitModule(c), CssRule)
    IN  IF r1.threw THEN r1
        ELSE PushRule(r1.cfg, ImageRule(imagePath, optimizeImages))

----------------------------------------------------------------------------
(* useExternal *)

\* The update of config.externals.
MergeExternal(externals, external) ==
    IF TruthyExternals(externals)
    THEN IF IsArray(externals)
         THEN ListExternals(Append(externals.items, external))
         ELSE ListExternals(<<externals.items[1], external>>)
    ELSE SingleExternal(external)

\* def.from && def.to
CopyWanted(def) == TruthyStr(def.from) /\ TruthyStr(def.to)

useExternal(c, def) ==
    LET external == ObjectExternal(def.module, def.global)
        plugins == OrDefault(c.plugins, <<>>)
        plugins2 == IF CopyWanted(def)
                    THEN Append(plugins,
                                NewCopyPlugin(def.from.val, def.to.val,
                                              Len(plugins) + 1))
                    ELSE plugins
    IN  Returned([c EXCEPT !.externals = MergeExternal(c.externals, external),
                           !.plugins = Some(plugins2)])

----------------------------------------------------------------------------
(* The configurations the caller hands in *)

\* The classes of the plugins a caller's configuration holds: this
\* module's ZipPlugin, another copy of ZipPlugin (npm link), some other
\* plugin and a DuplicatePackageCheckerPlugin.
InitPluginKinds ==
    {<<"ZipPlugin", TRUE>>, <<"ZipPlugin", FALSE>>,
     <<"HtmlPlugin", TRUE>>, <<"DuplicatePackageCheckerPlugin", TRUE>>}

InitPluginLists ==
    UNION {{[i \in 1..n |-> Plugin(ks[i][1], ks[i][2], i)] :
               ks \in [1..n -> InitPluginKinds]} : n \in 0..MaxInitPlugins}

InitPlugins == {Undefined(<<>>)} \cup {Some(l) : l \in InitPluginLists}

BabelRule ==
    [test |-> "\\.(js|jsx|mjs)$", use |-> <<[loader |-> "babel-loader"]>>]

InitResolves ==
    {Undefined(EmptyResolve),
     Some(EmptyResolve),
     Some([alias |-> Some([k \in {"react", "lodash"} |->
                              P(TRUE, <<"old", k>>)]),
           extensions |-> Some(<<".js", ".json">>),
           modules |-> Some(<<"src">>)])}

InitModules ==
    {Undefined(ModuleWithoutRules),
     Some(ModuleWithoutRules),
     Some([rules |-> Some(<<BabelRule>>)])}

InitExternals ==
    {NoExternals,
     SingleExternal(StringExternal("")),
     SingleExternal(StringExternal("lodash")),
     SingleExternal(ObjectExternal("react", "React")),
     ListExternals(<<>>),
     ListExternals(<<StringExternal("lodash")>>)}

StaticEntry == [tag |-> "static", globs |-> <<P(FALSE, <<"background.js">>)>>]

InitContexts ==
    {[context |-> NoPath, entry |-> NoEntry],
     [context |-> Some(P(TRUE, <<"proj", "app">>)), entry |-> StaticEntry]}

\* Configurations that differ from {} in their plugins, and configurations
\* without plugins that differ in everything else.
InitConfigs ==
    {[EmptyConfig EXCEPT !.plugins = p] : p \in InitPlugins}
    \cup
    {[EmptyConfig EXCEPT !.resolve = r, !.module = m, !.externals = e,
                         !.context = x.context, !.entry = x.entry] :
        r \in InitResolves, m \in InitModules, e \in InitExternals,
        x \in InitContexts}

----------------------------------------------------------------------------
(* The arguments of the calls *)

DedupeArgs ==
    {[modules |-> <<"react">>, folder |-> Undefined(EmptyPath)],
     [modules |-> <<"@s/ui", "react", "@s/ui">>,
      folder |-> Some(P(FALSE, <<"..", "shared", ".", "node_modules">>))]}

TypeScriptArgs ==
    {NoTypeScriptOptions,
     [entryPaths |-> Some(<<P(FALSE, <<"src">>), P(TRUE, <<"proj", "lib">>)>>),
      modules |-> Some(<<"lib", "./node_modules">>),
      tsConfigFile |-> Some("tsconfig.build.json")]}

CssArgs ==
    {NoCssOptions,
     [optimizeImages |-> Some(FALSE), imagePath |-> Some("img")]}

OptionalPaths ==
    {NoPath, Some(EmptyPath), Some(P(FALSE, <<"vendor", "jquery.js">>))}

ExternalArgs ==
    {[module |-> "jquery", global |-> "jQuery", from |-> f, to |-> t] :
        f \in OptionalPaths, t \in OptionalPaths}

----------------------------------------------------------------------------
(* The state machine *)

Init ==
    /\ config \in InitConfigs
    /\ prev = config
    /\ init = config
    /\ calls = <<>>
    /\ raised = FALSE

\* A call is made while the program has not stopped on an exception.
CanCall == ~raised /\ Len(calls) < MaxOps

Outcome(r, c) ==
    /\ config' = r.cfg
    /\ raised' = r.threw
    /\ prev' = config
    /\ calls' = Append(calls, c)
    /\ UNCHANGED init

FixZipPackage ==
    /\ CanCall
    /\ Outcome(fixZipPackage(config), [op |-> "fixZipPackage"])

DedupeModules ==
    /\ CanCall
    /\ \E a \in DedupeArgs :
          Outcome(dedupeModules(config, a.modules, a.folder),
                  [op |-> "dedupeModules", modules |-> a.modules,
                   folder |-> a.folder])

UseSourceMap ==
    /\ CanCall
    /\ \E dev \in BOOLEAN :
          Outcome(useSourceMap(config, dev), [op |-> "useSourceMap", dev |-> dev])

UseTypescript ==
    /\ CanCall
    /\ \E o \in TypeScriptArgs :
          Outcome(useTypescript(config, o), [op |-> "useTypescript", options |-> o])

UseCss ==
    /\ CanCall
    /\ \E o \in CssArgs :
          Outcome(useCss(config, o), [op |-> "useCss", options |-> o])

UseExternal ==
    /\ CanCall
    /\ \E d \in ExternalArgs :
          Outcome(useExternal(config, d), [op |-> "useExternal", def |-> d])

Next ==
    \/ FixZipPackage
    \/ DedupeModules
    \/ UseSourceMap
    \/ UseTypescript
    \/ UseCss
    \/ UseExternal

Spec == Init /\ [][Next]_vars

----------------------------------------------------------------------------
(* Reading the state *)

LastCall == calls[Len(calls)]
Called(op) == calls # <<>> /\ LastCall.op = op
EverCalled(op) == \E i \in 1..Len(calls) : calls[i].op = op

Contents(o) == IF o.has THEN o.val ELSE <<>>
PluginsOf(c) == Contents(c.plugins)
RulesOf(c) == IF c.module.has THEN Contents(c.module.val.rules) ELSE <<>>
ExtensionsOf(c) == IF c.resolve.has THEN Contents(c.resolve.val.extensions) ELSE <<>>
ModulesOf(c) == IF c.resolve.has THEN Contents(c.resolve.val.modules) ELSE <<>>
AliasOf(c) ==
    IF c.resolve.has /\ c.resolve.val.alias.has
    THEN c.resolve.val.alias.val
    ELSE EmptyObject

Range(s) == {s[i] : i \in 1..Len(s)}
IsPrefix(a, b) == Len(a) <= Len(b) /\ SubSeq(b, 1, Len(a)) = a
Count(s, Test(_)) == Cardinality({i \in 1..Len(s) : Test(s[i])})

\* A ZipPlugin: an instance of this module's ZipPlugin class or of a class
\* of that name.
IsZip(x) == x.cls = "ZipPlugin"
NotZip(x) == ~IsZip(x)
IsCopy(x) == x.cls = "CopyPlugin"
IsDuplicateChecker(x) == x.cls = "DuplicatePackageCheckerPlugin" /\ x.own
IsSourceMapRule(r) == r = SourceMapRule

----------------------------------------------------------------------------
(* C1 *)

\* C1: fixZipPackage leaves config.plugins equal to the plugins that are no
\* ZipPlugin, in their order, followed by the ZipPlugins, in their order
\* (same length; every ZipPlugin behind every other plugin); without a
\* plugin list it changes nothing.
C1_StablePartition ==
    Called("fixZipPackage") =>
        IF prev.plugins.has
        THEN LET b == prev.plugins.val
                 a == PluginsOf(config)
             IN  /\ config.plugins.has
                 /\ a = SelectSeq(b, NotZip) \o SelectSeq(b, IsZip)
                 /\ Len(a) = Len(b)
                 /\ \A i, j \in 1..Len(a) :
                        IsZip(a[i]) /\ NotZip(a[j]) => j < i
        ELSE config = prev

\* A list with both kinds of ZipPlugin in front of another plugin has been
\* reordered.
C1_Witness ==
    /\ Called("fixZipPackage")
    /\ Len(PluginsOf(prev)) >= 3
    /\ \E i, j, k \in 1..Len(PluginsOf(prev)) :
          /\ i < j /\ j < k
          /\ IsZip(PluginsOf(prev)[i]) /\ PluginsOf(prev)[i].own
          /\ IsZip(PluginsOf(prev)[j]) /\ ~PluginsOf(prev)[j].own
          /\ NotZip(PluginsOf(prev)[k])
    /\ config.plugins # prev.plugins

----------------------------------------------------------------------------
(* C2 *)

\* C2: useExternal merges {module: global} into config.externals: absent
\* externals become the mapping, a list gets the mapping appended, a
\* single value that is no list becomes the list [old value, mapping].
C2_ThreeWayMerge ==
    Called("useExternal") =>
        LET old == prev.externals
            new == config.externals
            m == ObjectExternal(LastCall.def.module, LastCall.def.global)
        IN  CASE old.kind = "absent" -> new = SingleExternal(m)
              [] old.kind = "list" ->
                    /\ new.kind = "list"
                    /\ Len(new.items) = Len(old.items) + 1
                    /\ new.items = Append(old.items, m)
              [] old.kind = "single" ->
                    new = ListExternals(<<old.items[1], m>>)

----------------------------------------------------------------------------
(* C3 *)

\* C3: useExternal appends exactly one CopyPlugin (the from/to pair, cache
\* on) behind the plugins there were when def.from and def.to are both
\* supplied, and leaves the plugins as they were when either is omitted.
C3_CopyPluginIffBothSupplied ==
    Called("useExternal") =>
        LET d == LastCall.def
            b == PluginsOf(prev)
            a == PluginsOf(config)
        IN  IF d.from.has /\ d.to.has
            THEN /\ Len(a) = Len(b) + 1
                 /\ SubSeq(a, 1, Len(b)) = b
                 /\ IsCopy(a[Len(a)])
                 /\ a[Len(a)].patterns =
                       <<[from |-> d.from.val, to |-> d.to.val, cache |-> TRUE]>>
            ELSE a = b

----------------------------------------------------------------------------
(* C4 *)

\* C4 as stated: once dedupeModules has been called, config.plugins holds
\* exactly one DuplicatePackageCheckerPlugin.
C4_ExactlyOne ==
    EverCalled("dedupeModules") =>
        Count(PluginsOf(config), IsDuplicateChecker) = 1

\* C4: once dedupeModules has been called, however often, config.plugins
\* holds one DuplicatePackageCheckerPlugin if the caller's list held none,
\* and as many as the caller's list held otherwise: a call adds one only
\* when there is none, so exactly one when the caller's list held at most
\* one.
C4_NeverAddsSecond ==
    EverCalled("dedupeModules") =>
        LET before == Count(PluginsOf(init), IsDuplicateChecker)
            after == Count(PluginsOf(config), IsDuplicateChecker)
        IN  /\ after = (IF before = 0 THEN 1 ELSE before)
            /\ before <= 1 => after = 1

\* Two calls on a configuration without a checker left one.
C4_Witness ==
    /\ Len(calls) >= 2
    /\ calls[1].op = "dedupeModules"
    /\ calls[2].op = "dedupeModules"
    /\ Count(PluginsOf(init), IsDuplicateChecker) = 0
    /\ Count(PluginsOf(config), IsDuplicateChecker) = 1

----------------------------------------------------------------------------
(* C5 *)

\* C5: after dedupeModules(config, modules, folder) the keys of
\* config.resolve.alias are the ones it had and the names in modules; a
\* name in modules maps to the resolved path of that module in folder,
\* whatever it mapped to before; every other key keeps its value.
C5_AliasMerge ==
    Called("dedupeModules") =>
        LET old == AliasOf(prev)
            new == AliasOf(config)
            mods == Range(LastCall.modules)
            folder == OrDefault(LastCall.folder, DefaultFolder)
        IN  /\ config.resolve.has /\ config.resolve.val.alias.has
            /\ DOMAIN new = DOMAIN old \cup mods
            /\ \A m \in mods :
                  new[m] = PathResolve(PathJoin(folder, P(FALSE, ModuleSegs(m))))
            /\ \A k \in DOMAIN old \ mods : new[k] = old[k]

\* The caller's alias for react was overwritten, the one for lodash kept,
\* and the scoped package resolved inside ../shared/node_modules.
C5_Witness ==
    /\ Called("dedupeModules")
    /\ DOMAIN AliasOf(prev) = {"react", "lodash"}
    /\ AliasOf(prev)["react"] = P(TRUE, <<"old", "react">>)
    /\ DOMAIN AliasOf(config) = {"react", "lodash", "@s/ui"}
    /\ AliasOf(config)["react"] = P(TRUE, <<"shared", "node_modules", "react">>)
    /\ AliasOf(config)["@s/ui"] = P(TRUE, <<"shared", "node_modules", "@s", "ui">>)
    /\ AliasOf(config)["lodash"] = P(TRUE, <<"old", "lodash">>)

----------------------------------------------------------------------------
(* C6 *)

\* C6: useSourceMap(config, TRUE) sets devtool to 'cheap-module-source-map'
\* and puts exactly one rule, the source-map-loader rule, behind the rules
\* there were; useSourceMap(config, FALSE) sets devtool to 'source-map'
\* and leaves the rules alone. Over the calls made, the source-map rules
\* added are as many as the calls with dev true.
C6_SourceMap ==
    /\ Called("useSourceMap") =>
          IF LastCall.dev
          THEN /\ config.devtool = "cheap-module-source-map"
               /\ RulesOf(config) = Append(RulesOf(prev), SourceMapRule)
          ELSE /\ config.devtool = "source-map"
               /\ RulesOf(config) = RulesOf(prev)
    /\ Count(RulesOf(config), IsSourceMapRule)
          - Count(RulesOf(init), IsSourceMapRule)
       = Cardinality({i \in 1..Len(calls) :
                         calls[i].op = "useSourceMap" /\ calls[i].dev})

----------------------------------------------------------------------------
(* C7 *)

\* The globs useTypescript scans: the caller's entry paths, or else '**'
\* under the context (under 'app' without one), each with the pattern of
\* the entry files.
EntryGlobs(c, options) ==
    LET paths == IF options.entryPaths.has
                 THEN options.entryPaths.val
                 ELSE <<PathResolve2(IF TruthyStr(c.context) THEN c.context.val
                                     ELSE P(FALSE, <<"app">>),
                                     P(FALSE, <<"**">>))>>
    IN  [i \in 1..Len(paths) |-> PathResolve2(paths[i], ENTRY_FILES)]

\* C7: after useTypescript the extensions are the ones there were followed
\* by '.ts' and '.tsx', and config.entry is the result of the glob scan,
\* whatever it was before.
C7_ExtensionsAndEntry ==
    Called("useTypescript") =>
        /\ ExtensionsOf(config) = ExtensionsOf(prev) \o <<".ts", ".tsx">>
        /\ config.entry = GetEntries(EntryGlobs(prev, LastCall.options))

\* A configuration with two extensions and a static entry got the globbed
\* entry of its context.
C7_Witness ==
    /\ Called("useTypescript")
    /\ prev.entry = StaticEntry
    /\ ExtensionsOf(prev) = <<".js", ".json">>
    /\ ExtensionsOf(config) = <<".js", ".json", ".ts", ".tsx">>
    /\ config.entry =
          GetEntries(<<P(TRUE, <<"proj", "app", "**", "*.{js,mjs,jsx,ts,tsx}">>)>>)

----------------------------------------------------------------------------
(* C8 *)

\* C8: when fixZipPackage is the last call, every CopyPlugin useExternal
\* added is in front of every ZipPlugin; when the list held no ZipPlugin,
\* fixZipPackage left the order as it was.
C8_CopyBeforeZip ==
    Called("fixZipPackage") =>
        LET a == PluginsOf(config)
        IN  /\ \A i, j \in 1..Len(a) : IsCopy(a[i]) /\ IsZip(a[j]) => i < j
            /\ (\A i \in 1..Len(PluginsOf(prev)) : NotZip(PluginsOf(prev)[i]))
                  => config.plugins = prev.plugins

\* useExternal put a CopyPlugin behind a ZipPlugin of another copy of the
\* library, and fixZipPackage moved the ZipPlugin behind it.
C8_Witness ==
    /\ Called("fixZipPackage")
    /\ EverCalled("useExternal")
    /\ \E i, j \in 1..Len(PluginsOf(prev)) :
          /\ i < j
          /\ IsZip(PluginsOf(prev)[i]) /\ ~PluginsOf(prev)[i].own
          /\ IsCopy(PluginsOf(prev)[j])
    /\ \E i, j \in 1..Len(PluginsOf(config)) :
          /\ i < j
          /\ IsCopy(PluginsOf(config)[i])
          /\ IsZip(PluginsOf(config)[j]) /\ ~PluginsOf(config)[j].own

----------------------------------------------------------------------------
(* C9 *)

\* C9: no call raises, whichever of the configuration's containers are
\* absent.
C9_NoCallRaises == ~raised

----------------------------------------------------------------------------
(* C10 *)

====
